---- MODULE Spec2Model ----
(***************************************************************************)
(* Reviewer-assignment service (internal/service) over its relational      *)
(* store (internal/repository).  The tables of schemaSQL are the state;    *)
(* every repository method is an operator on a database value d, every     *)
(* service method a small program whose steps are its repository calls.    *)
(* Spec runs each request to completion in one action; SpecConc lets the   *)
(* steps of several requests interleave, one SQL statement (or one         *)
(* transaction) at a time.                                                 *)
(***************************************************************************)
EXTENDS Integers, Sequences, FiniteSets, TLC

\* ---------------------------------------------------------------- bounds
NumUsers == 4       \* user ids 1..NumUsers
NumTeams == 2       \* team names 1..NumTeams
NumPRs   == 2       \* pull request ids 1..NumPRs
MaxList  == 2       \* longest user_ids list given to the bulk operation
MaxClock == 4       \* the clock stops advancing here (later reads tie)
MaxReq   == 4       \* requests issued in one behaviour
NumSlots == 2       \* requests that can be in flight at once
MaxShuffle == 4     \* longest list given to shuffle on its own

UserIDs   == 1..NumUsers
TeamNames == 1..NumTeams
PRIDs     == 1..NumPRs
Slots     == 1..NumSlots

NoUser == 0         \* "" : the zero value of a user id
NoTeam == 0         \* "" : the zero value of a team name
NoPR   == 0         \* "" : the zero value of a pull request id
NoTime == 0         \* NULL merged_at

\* error codes of model.ErrorCode, plus the opaque (non-domain) error
OK          == "ok"
NotFound    == "NotFound"
TeamExists  == "TeamExists"
PRExists    == "PRExists"
PRMerged    == "PRMerged"
NotAssigned == "NotAssigned"
NoCandidate == "NoCandidate"
Internal    == "Internal"

OPEN   == "OPEN"
MERGED == "MERGED"

VARIABLES
    teams,                    \* table teams: set of names
    users,                    \* table users: id -> [username, is_active, team_name]
    pull_requests,            \* table pull_requests: id -> [author_id, status, created_at, merged_at]
    pull_request_reviewers,   \* table pull_request_reviewers: set of <<pull_request_id, reviewer_id>>
    clock,                    \* now()
    req,                      \* requests in flight, one per connection
    resp,                     \* the last request that returned, with its result
    nreq                      \* requests issued so far

dbvars == <<teams, users, pull_requests, pull_request_reviewers, clock>>
vars == <<teams, users, pull_requests, pull_request_reviewers, clock, req, resp, nreq>>

DB == [teams |-> teams, users |-> users, pull_requests |-> pull_requests,
       pull_request_reviewers |-> pull_request_reviewers, clock |-> clock]

\* ------------------------------------------------------------- helpers
Min(a, b) == IF a <= b THEN a ELSE b

\* the elements of a set of integers in ascending order (ORDER BY id)
RECURSIVE Ascending(_)
Ascending(S) ==
    IF S = {} THEN <<>>
    ELSE LET m == CHOOSE x \in S : \A y \in S : x <= y
         IN <<m>> \o Ascending(S \ {m})

Range(s) == {s[i] : i \in 1..Len(s)}

\* now(): the clock value read, and the clock afterwards
Tick(c) == Min(c + 1, MaxClock)

\* ------------------------------------------------- repository (gateway)
\* reviewer ids bound to a pull request
ReviewersOf(d, prID) == {b[2] : b \in {x \in d.pull_request_reviewers : x[1] = prID}}

\* UpsertMembers with ON CONFLICT (id) DO NOTHING: a user that exists is kept
UpsertMembersDoNothing(us, teamName, members) ==
    LET row(m) == [username |-> m.username, is_active |-> m.is_active,
                   team_name |-> teamName]
        given == {members[k].user_id : k \in 1..Len(members)}
        first(u) == members[CHOOSE k \in 1..Len(members) :
                              /\ members[k].user_id = u
                              /\ \A l \in 1..(k - 1) : members[l].user_id # u]
    IN [u \in DOMAIN us \cup given |->
          IF u \in DOMAIN us THEN us[u] ELSE row(first(u))]

\* CreateTeam: one transaction; the members are upserted in list order
RECURSIVE UpsertMembers(_, _, _)
UpsertMembers(us, teamName, members) ==
    IF members = <<>> THEN us
    ELSE LET m == Head(members)
             row == [username |-> m.username, is_active |-> m.is_active,
                     team_name |-> teamName]
             us2 == [u \in DOMAIN us \cup {m.user_id} |->
                        IF u = m.user_id THEN row ELSE us[u]]
         IN UpsertMembers(us2, teamName, Tail(members))

\* CreateTeam that upserts the members before it looks for the team, outside
\* the transaction
CreateTeamUpsertFirst(d, teamName, members) ==
    IF teamName \in d.teams
    THEN [d |-> [d EXCEPT !.users = UpsertMembers(@, teamName, members)],
          err |-> TeamExists]
    ELSE [d |-> [d EXCEPT !.teams = @ \cup {teamName},
                          !.users = UpsertMembers(@, teamName, members)],
          err |-> OK]

CreateTeam(d, teamName, members) ==
    IF teamName \in d.teams
    THEN [d |-> d, err |-> TeamExists]
    ELSE [d |-> [d EXCEPT !.teams = @ \cup {teamName},
                          !.users = UpsertMembers(@, teamName, members)],
          err |-> OK]

\* GetTeam: the member ids of a team, ordered by id
GetTeam(d, teamName) ==
    IF teamName \notin d.teams
    THEN [members |-> <<>>, err |-> NotFound]
    ELSE [members |-> Ascending({u \in DOMAIN d.users : d.users[u].team_name = teamName}),
          err |-> OK]

\* SetUserActive that also deletes the bindings of a user it deactivates
SetUserActiveUnbinding(d, userID, active) ==
    IF userID \notin DOMAIN d.users
    THEN [d |-> d, err |-> NotFound]
    ELSE [d |-> [d EXCEPT !.users[userID].is_active = active,
                          !.pull_request_reviewers =
                              IF active THEN @ ELSE {b \in @ : b[2] # userID}],
          err |-> OK]

\* SetUserActive: UPDATE users SET is_active ... RETURNING
SetUserActive(d, userID, active) ==
    IF userID \notin DOMAIN d.users
    THEN [d |-> d, err |-> NotFound]
    ELSE [d |-> [d EXCEPT !.users[userID].is_active = active], err |-> OK]

\* GetUser
GetUser(d, userID) ==
    IF userID \notin DOMAIN d.users
    THEN [is_active |-> FALSE, team_name |-> NoTeam, err |-> NotFound]
    ELSE [is_active |-> d.users[userID].is_active,
          team_name |-> d.users[userID].team_name, err |-> OK]

\* GetActiveUsersByTeam: the rows come back in id order here; the callers
\* shuffle them, so every order the store could return is covered
GetActiveUsersByTeam(d, teamName) ==
    IF teamName \notin d.teams
    THEN [err |-> NotFound, ids |-> <<>>]
    ELSE [err |-> OK,
          ids |-> Ascending({u \in DOMAIN d.users :
                      d.users[u].team_name = teamName /\ d.users[u].is_active})]

\* CreatePRWithReviewers that inserts the reviewer rows before it looks for
\* the pull request, outside the transaction
CreatePRWithReviewersBindFirst(d, prID, authorID, reviewerIDs) ==
    IF prID \in DOMAIN d.pull_requests
    THEN [d |-> [d EXCEPT !.pull_request_reviewers =
                     @ \cup {<<prID, reviewerIDs[k]>> : k \in 1..Len(reviewerIDs)}],
          err |-> PRExists]
    ELSE LET row == [author_id |-> authorID, status |-> OPEN,
                     created_at |-> d.clock, merged_at |-> NoTime]
         IN [d |-> [d EXCEPT
                      !.pull_requests = [p \in DOMAIN @ \cup {prID} |->
                                            IF p = prID THEN row ELSE @[p]],
                      !.pull_request_reviewers =
                          @ \cup {<<prID, reviewerIDs[k]>> : k \in 1..Len(reviewerIDs)},
                      !.clock = Tick(@)],
             err |-> OK]

\* CreatePRWithReviewers: one transaction.  An insert that breaks a key
\* (author or reviewer not in users, the same reviewer twice) fails and the
\* transaction rolls back.
CreatePRWithReviewers(d, prID, authorID, reviewerIDs) ==
    IF prID \in DOMAIN d.pull_requests
    THEN [d |-> d, err |-> PRExists]
    ELSE IF \/ authorID \notin DOMAIN d.users
            \/ \E k \in 1..Len(reviewerIDs) : reviewerIDs[k] \notin DOMAIN d.users
            \/ \E k, l \in 1..Len(reviewerIDs) : k # l /\ reviewerIDs[k] = reviewerIDs[l]
    THEN [d |-> d, err |-> Internal]
    ELSE LET row == [author_id |-> authorID, status |-> OPEN,
                     created_at |-> d.clock, merged_at |-> NoTime]
         IN [d |-> [d EXCEPT
                      !.pull_requests = [p \in DOMAIN @ \cup {prID} |->
                                            IF p = prID THEN row ELSE @[p]],
                      !.pull_request_reviewers =
                          @ \cup {<<prID, reviewerIDs[k]>> : k \in 1..Len(reviewerIDs)},
                      !.clock = Tick(@)],
             err |-> OK]

\* MarkPRMerged that sets the status and leaves merged_at alone
MarkPRMergedStatusOnly(d, prID) ==
    IF prID \notin DOMAIN d.pull_requests
    THEN [d |-> d, err |-> NotFound]
    ELSE [d |-> [d EXCEPT !.pull_requests[prID].status = MERGED,
                          !.clock = Tick(@)],
          err |-> OK]

\* MarkPRMerged with merged_at = now() in place of the COALESCE
MarkPRMergedOverwrite(d, prID) ==
    IF prID \notin DOMAIN d.pull_requests
    THEN [d |-> d, err |-> NotFound]
    ELSE [d |-> [d EXCEPT
                   !.pull_requests[prID].status = MERGED,
                   !.pull_requests[prID].merged_at = d.clock,
                   !.clock = Tick(@)],
          err |-> OK]

\* MarkPRMerged: UPDATE ... SET status = 'MERGED', merged_at = COALESCE(merged_at, now())
MarkPRMerged(d, prID) ==
    IF prID \notin DOMAIN d.pull_requests
    THEN [d |-> d, err |-> NotFound]
    ELSE [d |-> [d EXCEPT
                   !.pull_requests[prID].status = MERGED,
                   !.pull_requests[prID].merged_at = IF @ = NoTime THEN d.clock ELSE @,
                   !.clock = Tick(@)],
          err |-> OK]

\* RepoReassignReviewer that adds the new binding and leaves the old one
RepoReassignReviewerKeepOld(d, prID, oldReviewerID, newReviewerID) ==
    IF <<prID, oldReviewerID>> \notin d.pull_request_reviewers
    THEN [d |-> d, err |-> Internal]
    ELSE [d |-> [d EXCEPT !.pull_request_reviewers = @ \cup {<<prID, newReviewerID>>}],
          err |-> OK]

\* ReassignReviewer: UPDATE pull_request_reviewers SET reviewer_id = new
\* WHERE pull_request_id = pr AND reviewer_id = old.  The primary key
\* (pull_request_id, reviewer_id) rejects a row that already exists.
RepoReassignReviewer(d, prID, oldReviewerID, newReviewerID) ==
    IF <<prID, oldReviewerID>> \notin d.pull_request_reviewers
    THEN [d |-> d, err |-> Internal]
    ELSE IF newReviewerID # oldReviewerID
            /\ <<prID, newReviewerID>> \in d.pull_request_reviewers
    THEN [d |-> d, err |-> Internal]
    ELSE [d |-> [d EXCEPT !.pull_request_reviewers =
                     (@ \ {<<prID, oldReviewerID>>}) \cup {<<prID, newReviewerID>>}],
          err |-> OK]

\* RemoveReviewer: DELETE, no error when the row is absent
RemoveReviewer(d, prID, reviewerID) ==
    [d |-> [d EXCEPT !.pull_request_reviewers = @ \ {<<prID, reviewerID>>}],
     err |-> OK]

\* GetPRsForReviewer: the pull requests a user reviews with the status read,
\* ORDER BY created_at DESC; rows with equal created_at come in any order
GetPRsForReviewer(d, userID) ==
    LET ps == {p \in DOMAIN d.pull_requests : <<p, userID>> \in d.pull_request_reviewers}
        n  == Cardinality(ps)
    IN {[i \in 1..n |-> [status |-> d.pull_requests[s[i]].status, id |-> s[i]]] :
          s \in {t \in [1..n -> ps] :
                   /\ \A i, j \in 1..n : i # j => t[i] # t[j]
                   /\ \A i, j \in 1..n : i < j =>
                        d.pull_requests[t[i]].created_at >= d.pull_requests[t[j]].created_at}}

\* ------------------------------------------------------ service (engine)
\* shuffle: for i := range ids { j := rand.Intn(i+1); swap ids[i], ids[j] }
\* draws[i] is the value of the i-th call of Intn, shifted to 1..i
DrawSeqs(n) == {f \in [1..n -> 1..(IF n = 0 THEN 1 ELSE n)] : \A i \in 1..n : f[i] <= i}

\* Swap that writes one side only: ids[i] = ids[j]
SwapOverwrite(ids, i, j) == [ids EXCEPT ![i] = ids[j]]

Swap(ids, i, j) == [ids EXCEPT ![i] = ids[j], ![j] = ids[i]]

RECURSIVE ShuffleFrom(_, _, _)
ShuffleFrom(ids, draws, i) ==
    IF i > Len(ids) THEN ids
    ELSE ShuffleFrom(Swap(ids, i, draws[i]), draws, i + 1)

shuffle(ids, draws) == ShuffleFrom(ids, draws, 1)

\* every result shuffle can give for ids
Shuffles(ids) == {shuffle(ids, dr) : dr \in DrawSeqs(Len(ids))}

\* the arguments of a request; a field a method does not take keeps its zero value
NoArgs == [members |-> <<>>, active |-> FALSE, team |-> NoTeam, user |-> NoUser,
           pr |-> NoPR, author |-> NoUser, userIDs |-> <<>>]

\* the locals of Service.ReassignReviewer
NewReassign(prID, oldUserID) ==
    [prID |-> prID, err |-> OK, status |-> OPEN, team |-> NoTeam, author |-> NoUser,
     pc |-> "GetPR", old |-> oldUserID, assigned |-> {}, new |-> NoUser,
     eligible |-> <<>>]

NoReassign ==
    [prID |-> NoPR, err |-> OK, status |-> OPEN, team |-> NoTeam, author |-> NoUser,
     pc |-> "done", old |-> NoUser, assigned |-> {}, new |-> NoUser,
     eligible |-> <<>>]

\* a request: method, position, arguments, locals and result
NewRequest(op, pc, args) ==
    [i |-> 1,                   \* bulk: position in userIDs, then in toProcess
     err |-> OK,
     reviewerIDs |-> <<>>,      \* CreatePR: the reviewers picked
     team |-> NoTeam,           \* CreatePR: author.TeamName
     pc |-> pc, op |-> op, args |-> args,
     rr |-> IF op = "ReassignReviewer" THEN NewReassign(args.pr, args.user)
            ELSE NoReassign,    \* the ReassignReviewer call running
     prs |-> <<>>,              \* bulk: open pull requests still to repair
     processed |-> 0,           \* bulk: len(res.Deactivated)
     reassigned |-> 0, removed |-> 0, affectedPRs |-> {}, affected |-> 0]

Idle == NewRequest("none", "done", NoArgs)

Fail(r, code) == [r EXCEPT !.pc = "done", !.err = code]

\* Service.ReassignReviewer, one repository call per step
ReassignFail(rr, code) == [rr EXCEPT !.pc = "done", !.err = code]

\* Eligible with the author left among the candidates
EligibleWithAuthor(candidates, assigned, oldUserID, authorID) ==
    SelectSeq(candidates, LAMBDA u : u \notin assigned \cup {oldUserID})

\* the replacement candidates: active users of the team that are neither
\* assigned, nor the old reviewer, nor the author
Eligible(candidates, assigned, oldUserID, authorID) ==
    SelectSeq(candidates, LAMBDA u : u \notin assigned \cup {oldUserID, authorID})

\* lines 178-188: GetPR reads the pull request row ...
ReassignGetPR(d, rr) ==
    IF rr.prID \notin DOMAIN d.pull_requests
    THEN {[d |-> d, rr |-> ReassignFail(rr, NotFound)]}
    ELSE {[d |-> d,
           rr |-> [rr EXCEPT !.pc = "GetPRReviewers",
                      !.author = d.pull_requests[rr.prID].author_id,
                      !.status = d.pull_requests[rr.prID].status]]}

\* ReassignGetPRReviewers without the test of the status
ReassignGetPRReviewersAnyStatus(d, rr) ==
    {[d |-> d, rr |-> [rr EXCEPT !.pc = "GetUser",
                          !.assigned = ReviewersOf(d, rr.prID)]]}

\* ... and then its reviewer rows; a merged pull request is refused
ReassignGetPRReviewers(d, rr) ==
    IF rr.status = MERGED
    THEN {[d |-> d, rr |-> ReassignFail(rr, PRMerged)]}
    ELSE {[d |-> d, rr |-> [rr EXCEPT !.pc = "GetUser",
                               !.assigned = ReviewersOf(d, rr.prID)]]}

\* ReassignGetUser that looks for candidates in the author's team
ReassignGetUserAuthorTeam(d, rr) ==
    IF GetUser(d, rr.old).err # OK
    THEN {[d |-> d, rr |-> ReassignFail(rr, NotFound)]}
    ELSE IF rr.old \notin rr.assigned
    THEN {[d |-> d, rr |-> ReassignFail(rr, NotAssigned)]}
    ELSE {[d |-> d, rr |-> [rr EXCEPT !.pc = "GetActiveUsers",
                               !.team = GetUser(d, rr.author).team_name]]}

\* ReassignGetUser without the test that the old reviewer is assigned
ReassignGetUserAnyUser(d, rr) ==
    IF GetUser(d, rr.old).err # OK
    THEN {[d |-> d, rr |-> ReassignFail(rr, NotFound)]}
    ELSE {[d |-> d, rr |-> [rr EXCEPT !.pc = "GetActiveUsers",
                               !.team = GetUser(d, rr.old).team_name]]}

\* lines 190-207: the old reviewer must exist and be assigned
ReassignGetUser(d, rr) ==
    IF GetUser(d, rr.old).err # OK
    THEN {[d |-> d, rr |-> ReassignFail(rr, NotFound)]}
    ELSE IF rr.old \notin rr.assigned
    THEN {[d |-> d, rr |-> ReassignFail(rr, NotAssigned)]}
    ELSE {[d |-> d, rr |-> [rr EXCEPT !.pc = "GetActiveUsers",
                               !.team = GetUser(d, rr.old).team_name]]}

\* lines 209-234: the candidates and the eligible ones among them
ReassignGetActiveUsers(d, rr) ==
    LET got == GetActiveUsersByTeam(d, rr.team)
        found == Eligible(got.ids, rr.assigned, rr.old, rr.author)
    IN IF got.err # OK
       THEN {[d |-> d, rr |-> ReassignFail(rr, NotFound)]}
       ELSE IF Len(found) = 0
       THEN {[d |-> d, rr |-> ReassignFail(rr, NoCandidate)]}
       ELSE {[d |-> d, rr |-> [rr EXCEPT !.pc = "shuffle", !.eligible = found]]}

\* lines 236-237: s.shuffle(eligible); newReviewer := eligible[0]
ReassignShuffle(d, rr) ==
    {[d |-> d, rr |-> [rr EXCEPT !.pc = "Reassign", !.new = s[1], !.eligible = <<>>]] :
        s \in Shuffles(rr.eligible)}

\* ReassignUpdate that drops the error of the repository call
ReassignUpdateIgnoreError(d, rr) ==
    {[d |-> RepoReassignReviewer(d, rr.prID, rr.old, rr.new).d,
      rr |-> [rr EXCEPT !.pc = "GetUpdated"]]}

\* lines 239-241: the binding is rewritten
ReassignUpdate(d, rr) ==
    LET out == RepoReassignReviewer(d, rr.prID, rr.old, rr.new)
    IN IF out.err # OK
       THEN {[d |-> out.d, rr |-> ReassignFail(rr, out.err)]}
       ELSE {[d |-> out.d, rr |-> [rr EXCEPT !.pc = "GetUpdated"]]}

\* lines 243-251: GetPR again, for the response
ReassignGetUpdated(d, rr) ==
    IF rr.prID \notin DOMAIN d.pull_requests
    THEN {[d |-> d, rr |-> ReassignFail(rr, Internal)]}
    ELSE {[d |-> d, rr |-> [rr EXCEPT !.pc = "done"]]}

ReassignStep(d, rr) ==
    CASE rr.pc = "GetPR"          -> ReassignGetPR(d, rr)
      [] rr.pc = "GetPRReviewers" -> ReassignGetPRReviewers(d, rr)
      [] rr.pc = "GetUser"        -> ReassignGetUser(d, rr)
      [] rr.pc = "GetActiveUsers" -> ReassignGetActiveUsers(d, rr)
      [] rr.pc = "shuffle"        -> ReassignShuffle(d, rr)
      [] rr.pc = "Reassign"       -> ReassignUpdate(d, rr)
      [] rr.pc = "GetUpdated"     -> ReassignGetUpdated(d, rr)

\* Service.AddTeam
AddTeamStep(d, r) ==
    CASE r.pc = "CreateTeam" ->
           LET out == CreateTeam(d, r.args.team, r.args.members)
           IN IF out.err # OK
              THEN {[d |-> out.d, r |-> Fail(r, out.err)]}
              ELSE {[d |-> out.d, r |-> [r EXCEPT !.pc = "GetTeam"]]}
      [] r.pc = "GetTeam" ->
           IF GetTeam(d, r.args.team).err # OK
           THEN {[d |-> d, r |-> Fail(r, NotFound)]}
           ELSE {[d |-> d, r |-> [r EXCEPT !.pc = "done"]]}

\* Service.SetUserIsActive
SetUserIsActiveStep(d, r) ==
    LET out == SetUserActive(d, r.args.user, r.args.active)
    IN {[d |-> out.d, r |-> [r EXCEPT !.pc = "done", !.err = out.err]]}

\* PickReviewers with the author left among the candidates
PickReviewersWithAuthor(candidates, authorID) ==
    {IF Len(s) > 2 THEN SubSeq(s, 1, 2) ELSE s : s \in Shuffles(candidates)}

\* PickReviewers with the cut at three reviewers instead of two
PickReviewersUpTo3(candidates, authorID) ==
    {IF Len(s) > 3 THEN SubSeq(s, 1, 3) ELSE s :
        s \in Shuffles(SelectSeq(candidates, LAMBDA u : u # authorID))}

\* CreatePR, lines 122-133: drop the author, shuffle, keep at most two
PickReviewers(candidates, authorID) ==
    {IF Len(s) > 2 THEN SubSeq(s, 1, 2) ELSE s :
        s \in Shuffles(SelectSeq(candidates, LAMBDA u : u # authorID))}

\* CreatePRGetUser that takes a missing author for one with no teammates
CreatePRGetUserLenient(d, r) ==
    IF GetUser(d, r.args.author).err # OK
    THEN {[d |-> d, r |-> [r EXCEPT !.pc = "CreatePRWithReviewers"]]}
    ELSE {[d |-> d, r |-> [r EXCEPT !.pc = "GetActiveUsers",
                              !.team = GetUser(d, r.args.author).team_name]]}

\* CreatePR, lines 106-112: the author must exist
CreatePRGetUser(d, r) ==
    IF GetUser(d, r.args.author).err # OK
    THEN {[d |-> d, r |-> Fail(r, NotFound)]}
    ELSE {[d |-> d, r |-> [r EXCEPT !.pc = "GetActiveUsers",
                              !.team = GetUser(d, r.args.author).team_name]]}

\* Service.CreatePR
CreatePRStep(d, r) ==
    CASE r.pc = "GetUser" -> CreatePRGetUser(d, r)
      [] r.pc = "GetActiveUsers" ->
           LET got == GetActiveUsersByTeam(d, r.team)
           IN IF got.err # OK
              THEN {[d |-> d, r |-> Fail(r, NotFound)]}
              ELSE {[d |-> d, r |-> [r EXCEPT !.pc = "shuffle",
                                        !.reviewerIDs = got.ids]]}
      [] r.pc = "shuffle" ->
           \* lines 122-133, on the candidates read
           {[d |-> d, r |-> [r EXCEPT !.pc = "CreatePRWithReviewers",
                                     !.reviewerIDs = ids]] :
              ids \in PickReviewers(r.reviewerIDs, r.args.author)}
      [] r.pc = "CreatePRWithReviewers" ->
           LET out == CreatePRWithReviewers(d, r.args.pr, r.args.author, r.reviewerIDs)
           IN IF out.err # OK
              THEN {[d |-> out.d, r |-> Fail(r, out.err)]}
              ELSE {[d |-> out.d, r |-> [r EXCEPT !.pc = "GetPR"]]}
      [] r.pc = "GetPR" ->
           IF r.args.pr \notin DOMAIN d.pull_requests
           THEN {[d |-> d, r |-> Fail(r, Internal)]}
           ELSE {[d |-> d, r |-> [r EXCEPT !.pc = "done"]]}

\* Service.MergePR
MergePRStep(d, r) ==
    CASE r.pc = "MarkPRMerged" ->
           \* the UPDATE ... RETURNING of MarkPRMerged
           LET out == MarkPRMerged(d, r.args.pr)
           IN IF out.err # OK
              THEN {[d |-> out.d, r |-> Fail(r, NotFound)]}
              ELSE {[d |-> out.d, r |-> [r EXCEPT !.pc = "Reviewers"]]}
      [] r.pc = "Reviewers" ->
           \* the reviewer rows of MarkPRMerged, for the response
           {[d |-> d, r |-> [r EXCEPT !.pc = "done"]]}

\* Service.ReassignReviewer as a request of its own
ReassignReviewerStep(d, r) ==
    {[d |-> o.d,
      r |-> [r EXCEPT !.rr = o.rr,
                      !.pc = IF o.rr.pc = "done" THEN "done" ELSE "Reassigning",
                      !.err = o.rr.err]] : o \in ReassignStep(d, r.rr)}

\* Service.DeactivateTeamUsersAndReassign
\* NextListed that leaves the first loop after its first user
NextListedFirstOnly(r) ==
    [r EXCEPT !.processed = @ + 1, !.i = 1, !.pc = "GetUserReviews"]

\* the first loop moves on to the next listed user, or to the second loop
NextListed(r) ==
    IF r.i < Len(r.args.userIDs)
    THEN [r EXCEPT !.processed = @ + 1, !.i = @ + 1, !.pc = "GetUser"]
    ELSE [r EXCEPT !.processed = @ + 1, !.i = 1, !.pc = "GetUserReviews"]

\* NextPR with the affected pull requests counted once per binding
NextPRPerBinding(r) ==
    IF r.prs # <<>>
    THEN [r EXCEPT !.pc = "Reassigning",
                   !.rr = NewReassign(Head(r.prs), r.args.userIDs[r.i])]
    ELSE IF r.i < Len(r.args.userIDs)
    THEN [r EXCEPT !.pc = "GetUserReviews", !.i = @ + 1, !.rr = NoReassign]
    ELSE [r EXCEPT !.pc = "done", !.rr = NoReassign,
                   !.affected = r.reassigned + r.removed]

\* the second loop moves on to the next pull request of r.prs, or to the
\* next processed user, or returns
NextPR(r) ==
    IF r.prs # <<>>
    THEN [r EXCEPT !.pc = "Reassigning",
                   !.rr = NewReassign(Head(r.prs), r.args.userIDs[r.i])]
    ELSE IF r.i < Len(r.args.userIDs)
    THEN [r EXCEPT !.pc = "GetUserReviews", !.i = @ + 1, !.rr = NoReassign]
    ELSE [r EXCEPT !.pc = "done", !.rr = NoReassign,
                   !.affected = Cardinality(r.affectedPRs)]

OpenIDs(prs) ==
    LET open == SelectSeq(prs, LAMBDA p : p.status = OPEN)
    IN [k \in 1..Len(open) |-> open[k].id]

\* DeactivateGetUser without the test of the user's team
DeactivateGetUserAnyTeam(d, r) ==
    LET user == GetUser(d, r.args.userIDs[r.i])
    IN IF user.err # OK THEN {[d |-> d, r |-> Fail(r, NotFound)]}
       ELSE IF user.is_active
       THEN {[d |-> d, r |-> [r EXCEPT !.pc = "SetUserActive"]]}
       ELSE {[d |-> d, r |-> NextListed(r)]}

\* lines 272-294: one listed user is fetched and checked ...
DeactivateGetUser(d, r) ==
    LET user == GetUser(d, r.args.userIDs[r.i])
    IN IF user.err # OK THEN {[d |-> d, r |-> Fail(r, NotFound)]}
       ELSE IF user.team_name # r.args.team
       THEN {[d |-> d, r |-> Fail(r, NotFound)]}
       ELSE IF user.is_active
       THEN {[d |-> d, r |-> [r EXCEPT !.pc = "SetUserActive"]]}
       ELSE {[d |-> d, r |-> NextListed(r)]}

\* ... and deactivated if active
DeactivateSetUserActive(d, r) ==
    LET out == SetUserActive(d, r.args.userIDs[r.i], FALSE)
    IN IF out.err # OK
       THEN {[d |-> out.d, r |-> Fail(r, NotFound)]}
       ELSE {[d |-> out.d, r |-> NextListed(r)]}

\* lines 298-307: the pull requests a processed user reviews, the open ones kept
DeactivateGetUserReviews(d, r) ==
    {[d |-> d, r |-> NextPR([r EXCEPT !.prs = OpenIDs(prs)])] :
        prs \in GetPRsForReviewer(d, r.args.userIDs[r.i])}

\* DeactivateReassign that takes every error of ReassignReviewer for NoCandidate
DeactivateReassignAnyError(d, r) ==
    {[d |-> o.d,
      r |-> IF o.rr.pc # "done" THEN [r EXCEPT !.rr = o.rr]
            ELSE IF o.rr.err = OK
            THEN NextPR([r EXCEPT !.reassigned = @ + 1,
                                  !.affectedPRs = @ \cup {o.rr.prID},
                                  !.prs = Tail(@)])
            ELSE [r EXCEPT !.pc = "RemoveReviewer", !.rr = o.rr]] :
        o \in ReassignStep(d, r.rr)}

\* lines 309-325: ReassignReviewer runs; when it returns, its result decides
DeactivateReassign(d, r) ==
    {[d |-> o.d,
      r |-> IF o.rr.pc # "done" THEN [r EXCEPT !.rr = o.rr]
            ELSE IF o.rr.err = OK
            THEN NextPR([r EXCEPT !.reassigned = @ + 1,
                                  !.affectedPRs = @ \cup {o.rr.prID},
                                  !.prs = Tail(@)])
            ELSE IF o.rr.err = NoCandidate
            THEN [r EXCEPT !.pc = "RemoveReviewer", !.rr = o.rr]
            ELSE [Fail(r, o.rr.err) EXCEPT !.rr = NoReassign]] :
        o \in ReassignStep(d, r.rr)}

\* DeactivateRemoveReviewer that counts the removal and deletes nothing
DeactivateRemoveReviewerCountOnly(d, r) ==
    {[d |-> d,
      r |-> NextPR([r EXCEPT !.removed = @ + 1,
                             !.affectedPRs = @ \cup {Head(r.prs)},
                             !.prs = Tail(@)])]}

\* lines 316-322: no candidate, the binding is removed
DeactivateRemoveReviewer(d, r) ==
    LET out == RemoveReviewer(d, Head(r.prs), r.args.userIDs[r.i])
    IN {[d |-> out.d,
         r |-> NextPR([r EXCEPT !.removed = @ + 1,
                                !.affectedPRs = @ \cup {Head(r.prs)},
                                !.prs = Tail(@)])]}

DeactivateStep(d, r) ==
    CASE r.pc = "GetUser"        -> DeactivateGetUser(d, r)
      [] r.pc = "SetUserActive"  -> DeactivateSetUserActive(d, r)
      [] r.pc = "GetUserReviews" -> DeactivateGetUserReviews(d, r)
      [] r.pc = "Reassigning"    -> DeactivateReassign(d, r)
      [] r.pc = "RemoveReviewer" -> DeactivateRemoveReviewer(d, r)

\* one step of a request: its next repository call and what follows it locally
Step(d, r) ==
    CASE r.op = "AddTeam"          -> AddTeamStep(d, r)
      [] r.op = "SetUserIsActive"  -> SetUserIsActiveStep(d, r)
      [] r.op = "CreatePR"         -> CreatePRStep(d, r)
      [] r.op = "MergePR"          -> MergePRStep(d, r)
      [] r.op = "ReassignReviewer" -> ReassignReviewerStep(d, r)
      [] r.op = "Deactivate"       -> DeactivateStep(d, r)

\* a request run from S to its return with nothing in between
RECURSIVE Exec(_)
Exec(S) ==
    IF \A o \in S : o.r.pc = "done" THEN S
    ELSE Exec(UNION {IF o.r.pc = "done" THEN {o} ELSE Step(o.d, o.r) : o \in S})

\* ------------------------------------------------------------- requests
\* member lists given to AddTeam for team t: the ids lo..hi in ascending
\* order with one active flag for the whole list; the usernames a call
\* gives differ from those given for any other team
UsernameFor(t, u) == t

MemberLists(t) ==
    {<<>>} \cup
    {[k \in 1..(hi - lo + 1) |->
         [username |-> UsernameFor(t, lo + k - 1), is_active |-> a, user_id |-> lo + k - 1]] :
       <<lo, hi, a>> \in {x \in UserIDs \X UserIDs \X BOOLEAN : x[1] <= x[2]}}

\* user id lists given to the bulk operation
UserIDLists == UNION {[1..n -> UserIDs] : n \in 0..MaxList}

AddTeamRequest(t, m) ==
    NewRequest("AddTeam", "CreateTeam", [NoArgs EXCEPT !.team = t, !.members = m])
SetUserIsActiveRequest(u, a) ==
    NewRequest("SetUserIsActive", "SetUserActive", [NoArgs EXCEPT !.user = u, !.active = a])
CreatePRRequest(p, a) ==
    NewRequest("CreatePR", "GetUser", [NoArgs EXCEPT !.pr = p, !.author = a])
MergePRRequest(p) ==
    NewRequest("MergePR", "MarkPRMerged", [NoArgs EXCEPT !.pr = p])
ReassignReviewerRequest(p, u) ==
    NewRequest("ReassignReviewer", "Reassigning", [NoArgs EXCEPT !.pr = p, !.user = u])
\* DeactivateRequest that refuses an empty list
DeactivateRequestNonEmpty(t, ids) ==
    IF Len(ids) = 0
    THEN Fail(NewRequest("Deactivate", "done", [NoArgs EXCEPT !.team = t, !.userIDs = ids]),
              NotFound)
    ELSE NewRequest("Deactivate", "GetUser", [NoArgs EXCEPT !.team = t, !.userIDs = ids])

\* lines 262-268: an empty list returns at once
DeactivateRequest(t, ids) ==
    NewRequest("Deactivate", IF Len(ids) = 0 THEN "done" ELSE "GetUser",
               [NoArgs EXCEPT !.team = t, !.userIDs = ids])

\* what the caller gets back, next to what it asked for (the member list
\* is kept only for a team that was created)
Response(r) ==
    [err |-> r.err, op |-> r.op,
     args |-> IF r.err = OK THEN r.args ELSE [r.args EXCEPT !.members = <<>>],
     processed |-> r.processed, reassigned |-> r.reassigned,
     removed |-> r.removed, affected |-> r.affected, replacedBy |-> r.rr.new]

SetDB(d) ==
    /\ teams' = d.teams
    /\ users' = d.users
    /\ pull_requests' = d.pull_requests
    /\ pull_request_reviewers' = d.pull_request_reviewers
    /\ clock' = d.clock

\* a request served alone, from call to return
Serve(r0) ==
    /\ nreq < MaxReq
    /\ \E o \in Exec({[d |-> DB, r |-> r0]}) :
          /\ SetDB(o.d)
          /\ resp' = Response(o.r)
    /\ nreq' = nreq + 1
    /\ UNCHANGED req

AddTeam == \E t \in TeamNames : \E m \in MemberLists(t) : Serve(AddTeamRequest(t, m))
SetUserIsActive == \E u \in UserIDs, a \in BOOLEAN : Serve(SetUserIsActiveRequest(u, a))
CreatePR == \E p \in PRIDs, a \in UserIDs : Serve(CreatePRRequest(p, a))
MergePR == \E p \in PRIDs : Serve(MergePRRequest(p))
ReassignReviewer == \E p \in PRIDs, u \in UserIDs : Serve(ReassignReviewerRequest(p, u))
DeactivateTeamUsersAndReassign ==
    \E t \in TeamNames, ids \in UserIDLists : Serve(DeactivateRequest(t, ids))

\* the store after Migrate
EmptyDB == [teams |-> {}, users |-> <<>>, pull_requests |-> <<>>,
            pull_request_reviewers |-> {}, clock |-> 1]

Init ==
    /\ teams = EmptyDB.teams
    /\ users = EmptyDB.users
    /\ pull_requests = EmptyDB.pull_requests
    /\ pull_request_reviewers = EmptyDB.pull_request_reviewers
    /\ clock = EmptyDB.clock
    /\ req = [s \in Slots |-> Idle]
    /\ resp = Response(Idle)
    /\ nreq = 0

Next ==
    \/ AddTeam
    \/ SetUserIsActive
    \/ CreatePR
    \/ MergePR
    \/ ReassignReviewer
    \/ DeactivateTeamUsersAndReassign

Spec == Init /\ [][Next]_vars

\* ------------------------------------------------- overlapping requests
\* A request that returned keeps only what the caller sees.
Returned(r) ==
    [Idle EXCEPT !.op = r.op, !.args = Response(r).args, !.err = r.err,
                 !.rr = [NoReassign EXCEPT !.new = r.rr.new],
                 !.processed = r.processed, !.reassigned = r.reassigned,
                 !.removed = r.removed, !.affected = r.affected]

\* a request arrives and takes the first free connection
Start(s, r0) ==
    /\ nreq < MaxReq
    /\ req[s].pc = "done"
    /\ \A k \in Slots : k < s => req[k].pc # "done"
    /\ nreq' = nreq + 1
    /\ IF r0.pc = "done"
       THEN req' = [req EXCEPT ![s] = Returned(r0)] /\ resp' = Response(r0)
       ELSE req' = [req EXCEPT ![s] = r0] /\ UNCHANGED resp
    /\ UNCHANGED dbvars

StartCreatePR == \E s \in Slots, p \in PRIDs, a \in UserIDs : Start(s, CreatePRRequest(p, a))
StartReassignReviewer ==
    \E s \in Slots, p \in PRIDs, u \in UserIDs : Start(s, ReassignReviewerRequest(p, u))
StartDeactivate ==
    \E s \in Slots, t \in TeamNames, ids \in UserIDLists : Start(s, DeactivateRequest(t, ids))

\* the request is about to call s.rand.Intn in shuffle: Service.rand is one
\* *rand.Rand for all requests and shuffle takes no lock (a list with
\* nothing to shuffle makes no call)
InShuffle(r) ==
    \/ /\ r.op = "CreatePR" /\ r.pc = "shuffle"
       /\ \E k \in 1..Len(r.reviewerIDs) : r.reviewerIDs[k] # r.args.author
    \/ /\ r.op \in {"ReassignReviewer", "Deactivate"}
       /\ r.pc = "Reassigning" /\ r.rr.pc = "shuffle"

\* two shuffles at once race on the generator: each Intn still returns a
\* value in range (every draw is in Shuffles), or the generator indexes out
\* of its array and the request ends in a panic, with nothing written
Raced(s) ==
    IF InShuffle(req[s]) /\ \E t \in Slots \ {s} : InShuffle(req[t])
    THEN {[d |-> DB, r |-> [Fail(req[s], Internal) EXCEPT !.rr = NoReassign]]}
    ELSE {}

\* the request on connection s makes its next repository call
StepRequest(s) ==
    /\ req[s].pc # "done"
    /\ \E o \in Step(DB, req[s]) \cup Raced(s) :
          /\ SetDB(o.d)
          /\ IF o.r.pc = "done"
             THEN req' = [req EXCEPT ![s] = Returned(o.r)] /\ resp' = Response(o.r)
             ELSE req' = [req EXCEPT ![s] = o.r] /\ UNCHANGED resp
    /\ UNCHANGED nreq

StepCreatePR == \E s \in Slots : req[s].op = "CreatePR" /\ StepRequest(s)
StepReassignReviewer == \E s \in Slots : req[s].op = "ReassignReviewer" /\ StepRequest(s)
StepDeactivate == \E s \in Slots : req[s].op = "Deactivate" /\ StepRequest(s)

\* AddTeam, SetUserIsActive and MergePR write in their first repository call
\* and only read for the response afterwards: they are served in one action
\* here too, at any moment of the requests in flight.
NextConc ==
    \/ AddTeam
    \/ SetUserIsActive
    \/ MergePR
    \/ StartCreatePR
    \/ StartReassignReviewer
    \/ StartDeactivate
    \/ StepCreatePR
    \/ StepReassignReviewer
    \/ StepDeactivate

\* The overlapping requests meet a store that two requests served alone have
\* filled: AddTeam of team 1 with the active users 1..k, then CreatePR of
\* pull request 1 by user 1.
Setup ==
    UNION {Exec({[d |-> o.d, r |-> CreatePRRequest(1, 1)]}) :
             o \in UNION {Exec({[d |-> EmptyDB, r |-> AddTeamRequest(1, m)]}) :
                            m \in {x \in MemberLists(1) :
                                     x # <<>> /\ x[1].user_id = 1 /\ x[1].is_active}}}

InitConc ==
    /\ \E o \in Setup :
          /\ teams = o.d.teams
          /\ users = o.d.users
          /\ pull_requests = o.d.pull_requests
          /\ pull_request_reviewers = o.d.pull_request_reviewers
          /\ clock = o.d.clock
          /\ resp = Response(o.r)
    /\ req = [s \in Slots |-> Idle]
    /\ nreq = 2

SpecConc == InitConc /\ [][NextConc]_vars

\* ------------------------------------------ one request at a time, by steps
\* The requests of SpecConc with no two of them in flight together: a request
\* arrives only when the one before has returned.
AllIdle == \A s \in Slots : req[s].pc = "done"

NextSer ==
    \/ AllIdle /\ AddTeam
    \/ AllIdle /\ SetUserIsActive
    \/ AllIdle /\ MergePR
    \/ AllIdle /\ StartCreatePR
    \/ AllIdle /\ StartReassignReviewer
    \/ AllIdle /\ StartDeactivate
    \/ StepCreatePR
    \/ StepReassignReviewer
    \/ StepDeactivate

SpecSer == InitConc /\ [][NextSer]_vars

\* ------------------------------------------------------ shuffle on its own
\* A call s.shuffle(ids) for any list of ids, repeated ids included: the
\* list given is kept in args.userIDs, the list shuffled in place is
\* reviewerIDs.
ShuffleInputs == UNION {[1..n -> UserIDs] : n \in 0..MaxShuffle}

ShuffleCall(ids) ==
    [NewRequest("shuffle", "shuffle", [NoArgs EXCEPT !.userIDs = ids])
        EXCEPT !.reviewerIDs = ids]

InitShuffle ==
    /\ teams = EmptyDB.teams
    /\ users = EmptyDB.users
    /\ pull_requests = EmptyDB.pull_requests
    /\ pull_request_reviewers = EmptyDB.pull_request_reviewers
    /\ clock = EmptyDB.clock
    /\ \E ids \in ShuffleInputs :
          req = [s \in Slots |-> IF s = 1 THEN ShuffleCall(ids) ELSE Idle]
    /\ resp = Response(Idle)
    /\ nreq = 0

\* the loop of shuffle runs, with any draws Intn can return
RunShuffle ==
    /\ req[1].pc = "shuffle"
    /\ \E draws \in DrawSeqs(Len(req[1].reviewerIDs)) :
          req' = [req EXCEPT ![1].reviewerIDs = shuffle(@, draws), ![1].pc = "done"]
    /\ UNCHANGED <<dbvars, resp, nreq>>

NextShuffle == RunShuffle

SpecShuffle == InitShuffle /\ [][NextShuffle]_vars

\* ---------------------------------------------------------- properties
\* the reviewers bound to pull request p in the binding table revs
RevOf(revs, p) == {b[2] : b \in {x \in revs : x[1] = p}}

\* under Spec: this step served one request of method op, from call to return
Served(op) == nreq' # nreq /\ resp'.op = op

\* the active members of u's team other than u
ActiveTeammates(u) ==
    {c \in DOMAIN users : c # u /\ users[c].is_active
                          /\ users[c].team_name = users[u].team_name}

\* C1: a CreatePR that succeeds stores exactly min(N, 2) reviewers, N being
\* the active members of the author's team other than the author when the
\* call is made; the author is not among them (and a set has no duplicates).
C1_CreatePRReviewers ==
    [][(Served("CreatePR") /\ resp'.err = OK) =>
        LET a == resp'.args.author
            p == resp'.args.pr
            N == Cardinality(ActiveTeammates(a))
            stored == RevOf(pull_request_reviewers', p)
        IN /\ p \notin DOMAIN pull_requests
           /\ Cardinality(stored) = IF N < 2 THEN N ELSE 2
           /\ stored \subseteq ActiveTeammates(a)
           /\ a \notin stored]_vars

\* a CreatePR returned two reviewers although the author had three active teammates
C1_Witness ==
    /\ resp.op = "CreatePR" /\ resp.err = OK
    /\ Cardinality(RevOf(pull_request_reviewers, resp.args.pr)) = 2
    /\ Cardinality(ActiveTeammates(resp.args.author)) = 3

\* C2: once a pull request is MERGED its reviewer bindings never change,
\* whatever MergePR, ReassignReviewer and the bulk operation do concurrently.
C2_MergedReviewersFrozen ==
    [][\A p \in DOMAIN pull_requests :
          pull_requests[p].status = MERGED =>
             RevOf(pull_request_reviewers', p) = RevOf(pull_request_reviewers, p)]_vars

\* C3: ReassignReviewer on an existing MERGED pull request fails with
\* PRMerged whatever the old reviewer given, and changes nothing.
C3_ReassignOnMerged ==
    [][(/\ Served("ReassignReviewer")
        /\ resp'.args.pr \in DOMAIN pull_requests
        /\ pull_requests[resp'.args.pr].status = MERGED) =>
           (resp'.err = PRMerged /\ UNCHANGED dbvars)]_vars

\* PRMerged was returned for a user id that does not exist
C3_Witness ==
    /\ resp.op = "ReassignReviewer" /\ resp.err = PRMerged
    /\ resp.args.user \notin DOMAIN users
    /\ pull_request_reviewers # {}

\* C4 as claimed: ReassignReviewer on an OPEN pull request with any user id
\* that is not among its reviewers fails with NotAssigned, bindings unchanged.
C4_NotAssignedAnyId ==
    [][(/\ Served("ReassignReviewer")
        /\ resp'.args.pr \in DOMAIN pull_requests
        /\ pull_requests[resp'.args.pr].status = OPEN
        /\ resp'.args.user \notin RevOf(pull_request_reviewers, resp'.args.pr)) =>
           (/\ resp'.err = NotAssigned
            /\ pull_request_reviewers' = pull_request_reviewers)]_vars

\* C4 amended: ... with the id of an existing user that is not among its
\* reviewers fails with NotAssigned, and with an id no user has fails with
\* NotFound; the bindings are unchanged in both cases.
C4_NotAssignedExistingUser ==
    [][(/\ Served("ReassignReviewer")
        /\ resp'.args.pr \in DOMAIN pull_requests
        /\ pull_requests[resp'.args.pr].status = OPEN
        /\ resp'.args.user \notin RevOf(pull_request_reviewers, resp'.args.pr)) =>
           (/\ resp'.err = IF resp'.args.user \in DOMAIN users
                           THEN NotAssigned ELSE NotFound
            /\ pull_request_reviewers' = pull_request_reviewers)]_vars

\* NotAssigned was returned on an open pull request that has reviewers
C4_Witness ==
    /\ resp.op = "ReassignReviewer" /\ resp.err = NotAssigned
    /\ resp.args.user \in DOMAIN users
    /\ RevOf(pull_request_reviewers, resp.args.pr) # {}

\* the replacement pool of C5: active users of u's team that are neither
\* reviewers of p, nor u, nor the author of p
Pool(p, u) ==
    {c \in DOMAIN users : users[c].is_active
                          /\ users[c].team_name = users[u].team_name}
      \ (RevOf(pull_request_reviewers, p) \cup {u, pull_requests[p].author_id})

\* C5: ReassignReviewer on an OPEN pull request for an assigned reviewer
\* fails with NoCandidate exactly when the pool is empty, and then the
\* bindings are unchanged.
C5_NoCandidateIffEmptyPool ==
    [][(/\ Served("ReassignReviewer")
        /\ resp'.args.pr \in DOMAIN pull_requests
        /\ pull_requests[resp'.args.pr].status = OPEN
        /\ resp'.args.user \in RevOf(pull_request_reviewers, resp'.args.pr)) =>
           (/\ (resp'.err = NoCandidate) <=> (Pool(resp'.args.pr, resp'.args.user) = {})
            /\ resp'.err = NoCandidate =>
                  pull_request_reviewers' = pull_request_reviewers)]_vars

\* NoCandidate was returned although the team has an active member left: the author
C5_Witness ==
    /\ resp.op = "ReassignReviewer" /\ resp.err = NoCandidate
    /\ users[pull_requests[resp.args.pr].author_id].is_active
    /\ users[pull_requests[resp.args.pr].author_id].team_name
          = users[resp.args.user].team_name

\* C6: a ReassignReviewer that succeeds replaces the old reviewer by one new
\* id on that pull request and changes no other binding; the new reviewer
\* is active, on the old reviewer's team, not the author, not assigned before.
C6_ReassignReplacesOne ==
    [][(Served("ReassignReviewer") /\ resp'.err = OK) =>
        LET p == resp'.args.pr
            old == resp'.args.user
            new == resp'.replacedBy
            before == RevOf(pull_request_reviewers, p)
        IN /\ old \in before
           /\ new \in DOMAIN users
           /\ new \notin before
           /\ pull_request_reviewers' =
                 (pull_request_reviewers \ {<<p, old>>}) \cup {<<p, new>>}
           /\ users[new].is_active
           /\ users[new].team_name = users[old].team_name
           /\ new # pull_requests[p].author_id
           /\ UNCHANGED <<teams, users, pull_requests>>]_vars

\* a reviewer was replaced while another pull request had reviewers of its own
C6_Witness ==
    /\ resp.op = "ReassignReviewer" /\ resp.err = OK
    /\ resp.replacedBy \in RevOf(pull_request_reviewers, resp.args.pr)
    /\ \E q \in DOMAIN pull_requests :
          q # resp.args.pr /\ RevOf(pull_request_reviewers, q) # {}

\* C7: MergePR on a pull request that is already MERGED succeeds, leaves it
\* MERGED and leaves merged_at as the first merge set it; no MergePR call
\* changes a reviewer binding.
C7_MergeIdempotent ==
    [][Served("MergePR") =>
        /\ pull_request_reviewers' = pull_request_reviewers
        /\ (/\ resp'.args.pr \in DOMAIN pull_requests
            /\ pull_requests[resp'.args.pr].status = MERGED) =>
              /\ resp'.err = OK
              /\ pull_requests'[resp'.args.pr].status = MERGED
              /\ pull_requests'[resp'.args.pr].merged_at
                    = pull_requests[resp'.args.pr].merged_at]_vars

\* a MergePR returned for a pull request merged two clock readings ago
C7_Witness ==
    /\ resp.op = "MergePR" /\ resp.err = OK
    /\ pull_requests[resp.args.pr].status = MERGED
    /\ pull_requests[resp.args.pr].merged_at + 2 <= clock

\* C8: when the bulk operation returns without error (served alone), every
\* listed user is inactive and reviews no OPEN pull request.
C8_BulkLeavesNoOpenReview ==
    (resp.op = "Deactivate" /\ resp.err = OK) =>
       \A k \in 1..Len(resp.args.userIDs) :
          LET u == resp.args.userIDs[k]
          IN /\ u \in DOMAIN users
             /\ ~users[u].is_active
             /\ \A p \in DOMAIN pull_requests :
                   pull_requests[p].status = OPEN =>
                      <<p, u>> \notin pull_request_reviewers

\* a bulk operation returned that replaced one reviewer and removed another
C8_Witness ==
    /\ resp.op = "Deactivate" /\ resp.err = OK
    /\ resp.reassigned >= 1 /\ resp.removed >= 1
    /\ Len(resp.args.userIDs) = 2

\* the bindings of the listed users on OPEN pull requests
OpenBindings(ids) ==
    {b \in pull_request_reviewers :
        /\ \E k \in 1..Len(ids) : ids[k] = b[2]
        /\ pull_requests[b[1]].status = OPEN}

\* C9: for a bulk operation that succeeds (served alone), reassigned +
\* removed is the number of bindings the listed users held on OPEN pull
\* requests when it was called, and affected the number of those pull requests.
C9_BulkCounts ==
    [][(Served("Deactivate") /\ resp'.err = OK) =>
        LET B == OpenBindings(resp'.args.userIDs)
        IN /\ resp'.reassigned + resp'.removed = Cardinality(B)
           /\ resp'.affected = Cardinality({b[1] : b \in B})]_vars

\* the example of the claim: two listed reviewers of one pull request, one
\* replaced and one removed
C9_Witness ==
    /\ resp.op = "Deactivate" /\ resp.err = OK
    /\ resp.reassigned = 1 /\ resp.removed = 1 /\ resp.affected = 1

\* position k of the list names no user, or a user of another team
Mismatch(t, ids, k) ==
    ids[k] \notin DOMAIN users \/ users[ids[k]].team_name # t

\* C10: if the k-th listed user (the first such) does not exist or is on
\* another team, the bulk operation fails with NotFound; the users listed
\* before position k are inactive, no other user and no binding has changed.
C10_BulkAbortsOnMismatch ==
    [][(/\ Served("Deactivate")
        /\ \E k \in 1..Len(resp'.args.userIDs) :
              Mismatch(resp'.args.team, resp'.args.userIDs, k)) =>
        LET t == resp'.args.team
            ids == resp'.args.userIDs
            k == CHOOSE j \in 1..Len(ids) :
                    /\ Mismatch(t, ids, j)
                    /\ \A l \in 1..(j - 1) : ~Mismatch(t, ids, l)
            listedBefore == {ids[l] : l \in 1..(k - 1)}
        IN /\ resp'.err = NotFound
           /\ resp'.processed = k - 1
           /\ users' = [u \in DOMAIN users |->
                          IF u \in listedBefore
                          THEN [users[u] EXCEPT !.is_active = FALSE]
                          ELSE users[u]]
           /\ UNCHANGED <<teams, pull_requests, pull_request_reviewers>>]_vars

\* the bulk operation stopped at its second user, of another team, after it
\* had deactivated the first, a reviewer
C10_Witness ==
    /\ resp.op = "Deactivate" /\ resp.err = NotFound
    /\ resp.processed = 1
    /\ resp.args.userIDs[2] \in DOMAIN users
    /\ ~users[resp.args.userIDs[1]].is_active
    /\ \E p \in DOMAIN pull_requests : <<p, resp.args.userIDs[1]>> \in pull_request_reviewers

\* C11: the bulk operation with an empty list of user ids returns no error
\* and a zero result, and changes nothing in the store, whether the team
\* named exists or not.
C11_BulkEmptyListNoOp ==
    [][(Served("Deactivate") /\ resp'.args.userIDs = <<>>) =>
          /\ resp'.err = OK
          /\ resp'.processed = 0
          /\ resp'.reassigned = 0 /\ resp'.removed = 0 /\ resp'.affected = 0
          /\ UNCHANGED dbvars]_vars

\* the empty list was given for a team that does not exist, with a store
\* that has active reviewers to lose
C11_Witness ==
    /\ resp.op = "Deactivate" /\ resp.args.userIDs = <<>> /\ resp.err = OK
    /\ resp.args.team \notin teams
    /\ \E b \in pull_request_reviewers : users[b[2]].is_active

\* C15: AddTeam with the name of a team that exists fails with TeamExists
\* and changes nothing: no team, no user row.
C15_TeamExistsNoChange ==
    [][(Served("AddTeam") /\ resp'.args.team \in teams) =>
          (resp'.err = TeamExists /\ UNCHANGED dbvars)]_vars

\* TeamExists was returned while ids were free to insert and users of
\* another team were there to move
C15_Witness ==
    /\ resp.op = "AddTeam" /\ resp.err = TeamExists
    /\ DOMAIN users # UserIDs
    /\ \E u \in DOMAIN users : users[u].team_name # resp.args.team

\* C16: CreatePR with the id of a pull request that exists, by an author
\* that exists, fails with PRExists; the pull request row and the reviewer
\* bindings are unchanged.
C16_PRExistsNoChange ==
    [][(/\ Served("CreatePR")
        /\ resp'.args.pr \in DOMAIN pull_requests
        /\ resp'.args.author \in DOMAIN users) =>
          (resp'.err = PRExists /\ UNCHANGED dbvars)]_vars

\* PRExists was returned to an author other than the pull request's, with an
\* active teammate that is not a reviewer of it
C16_Witness ==
    /\ resp.op = "CreatePR" /\ resp.err = PRExists
    /\ pull_requests[resp.args.pr].author_id # resp.args.author
    /\ pull_requests[resp.args.pr].status = MERGED
    /\ \E u \in ActiveTeammates(resp.args.author) :
          u \notin RevOf(pull_request_reviewers, resp.args.pr)

\* C17: AddTeam of a new team succeeds also when listed ids belong to users
\* of another team; each listed user then has the new team, the name and the
\* active flag given; it is no member of its previous team; no reviewer
\* binding has changed.
C17_AddTeamRelocates ==
    [][(Served("AddTeam") /\ resp'.args.team \notin teams) =>
        LET t == resp'.args.team
            ms == resp'.args.members
            listed == {ms[k].user_id : k \in 1..Len(ms)}
        IN /\ resp'.err = OK
           /\ teams' = teams \cup {t}
           /\ DOMAIN users' = DOMAIN users \cup listed
           /\ \A k \in 1..Len(ms) :
                 users'[ms[k].user_id] =
                    [username |-> ms[k].username, is_active |-> ms[k].is_active,
                     team_name |-> t]
           /\ \A u \in DOMAIN users \ listed : users'[u] = users[u]
           /\ \A u \in listed \cap DOMAIN users :
                 u \notin Range(GetTeam([DB EXCEPT !.users = users'],
                                        users[u].team_name).members)
           /\ UNCHANGED <<pull_requests, pull_request_reviewers>>]_vars

\* a team was created with a member that reviews a pull request of another
\* team's author, and the call made that member inactive
C17_Witness ==
    /\ resp.op = "AddTeam" /\ resp.err = OK
    /\ \E k \in 1..Len(resp.args.members) :
          /\ ~resp.args.members[k].is_active
          /\ \E p \in DOMAIN pull_requests :
                /\ <<p, resp.args.members[k].user_id>> \in pull_request_reviewers
                /\ users[pull_requests[p].author_id].team_name # resp.args.team

\* C18: CreatePR by an author id that no user has fails with NotFound;
\* no pull request and no reviewer binding is created.
C18_CreatePRNoAuthor ==
    [][(Served("CreatePR") /\ resp'.args.author \notin DOMAIN users) =>
          (resp'.err = NotFound /\ UNCHANGED dbvars)]_vars

\* NotFound was returned for a new pull request id while a team with active
\* users was there
C18_Witness ==
    /\ resp.op = "CreatePR" /\ resp.err = NotFound
    /\ resp.args.author \notin DOMAIN users
    /\ resp.args.pr \notin DOMAIN pull_requests
    /\ \E u \in DOMAIN users : users[u].is_active

\* C13: shuffle's generator is safe for concurrent use: two requests are
\* never about to draw from it at the same time (nothing but a lock, or a
\* generator per call, could exclude it).
C13_ShuffleExclusive ==
    \A s, t \in Slots : s # t => ~(InShuffle(req[s]) /\ InShuffle(req[t]))

\* two ReassignReviewer requests for the same binding
SameBinding(a, b) ==
    /\ a.op = "ReassignReviewer" /\ b.op = "ReassignReviewer"
    /\ a.args.pr = b.args.pr /\ a.args.user = b.args.user

\* a ReassignReviewer request whose UPDATE went through
Succeeded(r) ==
    /\ r.op = "ReassignReviewer" /\ r.err = OK
    /\ r.pc = "done" \/ r.rr.pc = "GetUpdated"

\* C12: of two concurrent ReassignReviewer requests for the same binding
\* (the only two requests since the store was set up: nreq = 4) at most one
\* succeeds.  Once one has, the other writes nothing and does not succeed;
\* if it gets as far as the UPDATE it finds no row and returns an error;
\* the old reviewer is gone and the winner's replacement is bound.
C12_OneReassignWins ==
    [][\A s, t \in Slots :
          (s # t /\ nreq = 4 /\ SameBinding(req[s], req[t]) /\ Succeeded(req[s])) =>
             /\ ~Succeeded(req[t])
             /\ req'[t] # req[t] =>
                   /\ pull_request_reviewers' = pull_request_reviewers
                   /\ ~Succeeded(req'[t])
                   /\ req'[t].pc = "done" => req'[t].err # OK
                   /\ (req[t].pc # "done" /\ req[t].rr.pc = "Reassign") =>
                         (req'[t].pc = "done" /\ req'[t].err = Internal)
             /\ req[s].args.user \notin RevOf(pull_request_reviewers', req[s].args.pr)
             /\ req[s].rr.new \in RevOf(pull_request_reviewers', req[s].args.pr)]_vars

\* one request has replaced the reviewer and the other, which had read the
\* binding before, is about to run its UPDATE
C12_Witness ==
    \E s, t \in Slots :
       /\ s # t /\ nreq = 4 /\ SameBinding(req[s], req[t])
       /\ Succeeded(req[s])
       /\ req[t].pc # "done" /\ req[t].rr.pc = "Reassign"
       /\ req[t].rr.old \in req[t].rr.assigned

\* C14: in every state, whatever the requests and their interleaving, a
\* pull request has at most two reviewers (distinct by the primary key of
\* the binding table) and its author is not one of them.
C14_ReviewerSetShape ==
    \A p \in DOMAIN pull_requests :
       /\ Cardinality(RevOf(pull_request_reviewers, p)) <= 2
       /\ pull_requests[p].author_id \notin RevOf(pull_request_reviewers, p)
       /\ \A b \in pull_request_reviewers : b[1] \in DOMAIN pull_requests

\* a request is about to bind a user that another request has bound to the
\* same pull request in the meantime, the pull request having two reviewers
C14_Witness ==
    \E s \in Slots :
       /\ req[s].pc # "done" /\ req[s].rr.pc = "Reassign"
       /\ req[s].rr.new \in RevOf(pull_request_reviewers, req[s].rr.prID)
       /\ req[s].rr.old \in RevOf(pull_request_reviewers, req[s].rr.prID)
       /\ Cardinality(RevOf(pull_request_reviewers, req[s].rr.prID)) = 2

\* C19: with no other request in flight, whenever the bulk operation is in
\* its second loop (reading a user's reviews, reassigning, removing) every
\* listed user is inactive; the replacement it has picked is no listed user
\* and no binding it writes is for a listed user.
C19_DeactivateBeforeReassign ==
    [][\A s \in Slots :
          (req'[s].op = "Deactivate"
           /\ req'[s].pc \in {"GetUserReviews", "Reassigning", "RemoveReviewer"}) =>
             LET ids == req'[s].args.userIDs
             IN /\ \A k \in 1..Len(ids) :
                      ids[k] \in DOMAIN users' /\ ~users'[ids[k]].is_active
                /\ req'[s].processed = Len(ids)
                /\ \A k \in 1..Len(ids) : req'[s].rr.new # ids[k]
                /\ \A b \in pull_request_reviewers' \ pull_request_reviewers :
                      \A k \in 1..Len(ids) : b[2] # ids[k]]_vars

\* the bulk operation, given two users, has picked a replacement for a
\* reviewer while the other listed user reviews the same pull request
C19_Witness ==
    \E s \in Slots :
       /\ req[s].op = "Deactivate" /\ req[s].pc = "Reassigning"
       /\ req[s].rr.pc = "Reassign"
       /\ Len(req[s].args.userIDs) = 2
       /\ \E k \in 1..2 :
             /\ req[s].args.userIDs[k] # req[s].rr.old
             /\ <<req[s].rr.prID, req[s].args.userIDs[k]>> \in pull_request_reviewers

\* the bulk request r ends here with error e: nothing is written, the
\* counts stay as they were
Aborts(r, after, e) ==
    /\ after.pc = "done" /\ after.err = e
    /\ after.processed = r.processed
    /\ after.reassigned = r.reassigned /\ after.removed = r.removed
    /\ UNCHANGED dbvars

\* C20: in the bulk operation a reassignment that finds no candidate does
\* not end the operation: the binding is removed, counted, and the
\* operation goes on without error.  A reassignment that fails otherwise
\* (the pull request merged meanwhile, the reviewer no longer assigned, no
\* row updated) ends it at once with that error, nothing more written and
\* nothing undone.
C20_BulkErrorHandling ==
    [][\A s \in Slots :
          (req[s].op = "Deactivate" /\ req'[s] # req[s]) =>
             LET r == req[s]
                 rr == req[s].rr
                 pool == {c \in DOMAIN users :
                             users[c].is_active /\ users[c].team_name = rr.team}
                           \ (rr.assigned \cup {rr.old, rr.author})
             IN /\ (r.pc = "Reassigning" /\ rr.pc = "GetActiveUsers" /\ pool = {}) =>
                      /\ req'[s].pc = "RemoveReviewer" /\ req'[s].err = OK
                      /\ UNCHANGED dbvars
                /\ r.pc = "RemoveReviewer" =>
                      /\ pull_request_reviewers' =
                            pull_request_reviewers \ {<<rr.prID, rr.old>>}
                      /\ UNCHANGED <<teams, users, pull_requests>>
                      /\ req'[s].removed = r.removed + 1
                      /\ req'[s].err = OK
                /\ (r.pc = "Reassigning" /\ rr.pc = "GetPRReviewers" /\ rr.status = MERGED) =>
                      Aborts(r, req'[s], PRMerged)
                /\ (r.pc = "Reassigning" /\ rr.pc = "GetUser" /\ rr.old \notin rr.assigned) =>
                      Aborts(r, req'[s], NotAssigned)
                /\ (/\ r.pc = "Reassigning" /\ rr.pc = "Reassign"
                    /\ \/ <<rr.prID, rr.old>> \notin pull_request_reviewers
                       \/ <<rr.prID, rr.new>> \in pull_request_reviewers) =>
                      Aborts(r, req'[s], Internal)]_vars

\* a bulk operation was ended by PRMerged after it had deactivated its
\* users; the reviewer it was about to replace is still bound
C20_Witness ==
    /\ resp.op = "Deactivate" /\ resp.err = PRMerged
    /\ resp.processed = Len(resp.args.userIDs)
    /\ \E k \in 1..Len(resp.args.userIDs) :
          /\ ~users[resp.args.userIDs[k]].is_active
          /\ \E p \in DOMAIN pull_requests :
                /\ pull_requests[p].status = MERGED
                /\ <<p, resp.args.userIDs[k]>> \in pull_request_reviewers

\* C21: a binding is never written for a user who is inactive when it is
\* written, whatever CreatePR, ReassignReviewer, SetUserIsActive and the
\* bulk operation do concurrently.
C21_NoBindingForInactive ==
    [][\A b \in pull_request_reviewers' \ pull_request_reviewers :
          users'[b[2]].is_active]_vars

\* C22 as claimed: in every state every reviewer of a pull request is on
\* the team of its author, AddTeam calls that relocate users included.
C22_ReviewersOnAuthorsTeam ==
    \A b \in pull_request_reviewers :
       users[b[2]].team_name = users[pull_requests[b[1]].author_id].team_name

\* C22 amended: a reviewer bound by CreatePR is on the author's team when it
\* is bound; a replacement bound by ReassignReviewer or by the bulk
\* operation is on the team the replaced reviewer has at that moment.  No
\* call rewrites a binding when AddTeam moves the reviewer or the author.
C22_ReviewersFromTeamWhenBound ==
    [][\A b \in pull_request_reviewers' \ pull_request_reviewers :
          /\ resp'.op \in {"CreatePR", "ReassignReviewer", "Deactivate"}
          /\ resp'.op = "CreatePR" =>
                users[b[2]].team_name = users[resp'.args.author].team_name
          /\ resp'.op = "ReassignReviewer" =>
                users[b[2]].team_name = users[resp'.args.user].team_name
          /\ resp'.op = "Deactivate" =>
                /\ users[b[2]].team_name = resp'.args.team
                /\ \E k \in 1..Len(resp'.args.userIDs) :
                      /\ <<b[1], resp'.args.userIDs[k]>> \in pull_request_reviewers
                      /\ <<b[1], resp'.args.userIDs[k]>> \notin pull_request_reviewers'
                      /\ users[resp'.args.userIDs[k]].team_name = resp'.args.team]_vars

\* a reviewer that AddTeam had moved to another team was replaced by a user
\* of that team, not of the author's
C22_Witness ==
    /\ resp.op = "ReassignReviewer" /\ resp.err = OK
    /\ users[resp.replacedBy].team_name = users[resp.args.user].team_name
    /\ users[resp.replacedBy].team_name
          # users[pull_requests[resp.args.pr].author_id].team_name

\* how often id u occurs in list l
Count(l, u) == Cardinality({k \in 1..Len(l) : l[k] = u})

\* the orderings of a list of distinct ids
Orderings(l) ==
    {f \in [1..Len(l) -> Range(l)] : \A i, j \in 1..Len(l) : i # j => f[i] # f[j]}

\* C23: shuffle returns a permutation of the list it is given (same length,
\* every id as often as before).  For a list of distinct ids every ordering
\* comes from exactly one sequence of draws, so every id is at every
\* position for equally many draws.  The pick of ReassignReviewer is the
\* first element of a shuffle and the pick of CreatePR its first two.
C23_ShufflePermutes ==
    \A s \in Slots :
       (req[s].op = "shuffle" /\ req[s].pc = "done") =>
          LET given == req[s].args.userIDs
              out == req[s].reviewerIDs
              n == Len(given)
              ds == DrawSeqs(n)
          IN /\ Len(out) = n
             /\ \A u \in UserIDs : Count(out, u) = Count(given, u)
             /\ (\A i, j \in 1..n : i # j => given[i] # given[j]) =>
                   /\ \A o \in Orderings(given) :
                         Cardinality({dr \in ds : shuffle(given, dr) = o}) = 1
                   /\ \A k \in 1..n : \A u, v \in Range(given) :
                         Cardinality({dr \in ds : shuffle(given, dr)[k] = u})
                            = Cardinality({dr \in ds : shuffle(given, dr)[k] = v})
                   /\ n > 0 =>
                         {o.rr.new : o \in ReassignShuffle(EmptyDB,
                                        [NoReassign EXCEPT !.eligible = given])}
                            = {shuffle(given, dr)[1] : dr \in ds}
                   /\ PickReviewers(given, NoUser)
                         = {SubSeq(shuffle(given, dr), 1, IF n < 2 THEN n ELSE 2) :
                              dr \in ds}

\* four distinct ids were shuffled and the last one came out first
C23_Witness ==
    /\ req[1].op = "shuffle" /\ req[1].pc = "done"
    /\ Len(req[1].args.userIDs) = 4
    /\ \A i, j \in 1..4 : i # j => req[1].args.userIDs[i] # req[1].args.userIDs[j]
    /\ req[1].reviewerIDs[1] = req[1].args.userIDs[4]
    /\ req[1].reviewerIDs[4] = req[1].args.userIDs[2]

\* C24: a pull request is created OPEN with no merge timestamp; a MERGED
\* pull request never becomes OPEN again; in every state a pull request has
\* a merge timestamp exactly when it is MERGED.
C24_StatusAndMergedAt ==
    [][\A p \in DOMAIN pull_requests' :
          /\ p \notin DOMAIN pull_requests =>
                (pull_requests'[p].status = OPEN /\ pull_requests'[p].merged_at = NoTime)
          /\ (p \in DOMAIN pull_requests /\ pull_requests[p].status = MERGED) =>
                pull_requests'[p].status = MERGED
          /\ pull_requests'[p].status \in {OPEN, MERGED}
          /\ (pull_requests'[p].merged_at # NoTime) <=> (pull_requests'[p].status = MERGED)
          /\ DOMAIN pull_requests \subseteq DOMAIN pull_requests']_vars

\* a pull request was created, and is OPEN with no merge timestamp, after
\* another one had been merged
C24_Witness ==
    /\ resp.op = "CreatePR" /\ resp.err = OK
    /\ pull_requests[resp.args.pr].status = OPEN
    /\ pull_requests[resp.args.pr].merged_at = NoTime
    /\ \E q \in DOMAIN pull_requests :
          /\ pull_requests[q].status = MERGED
          /\ pull_requests[q].merged_at # NoTime
          /\ pull_requests[q].merged_at <= pull_requests[resp.args.pr].created_at

\* C25: SetUserIsActive for a user that exists sets that user's active flag
\* and nothing else: team and name of the user, the other users, the teams,
\* the pull requests and the reviewer bindings stay; for an id no user has
\* it fails with NotFound and changes nothing.
C25_SetUserIsActiveFrame ==
    [][Served("SetUserIsActive") =>
        IF resp'.args.user \in DOMAIN users
        THEN /\ resp'.err = OK
             /\ users' = [users EXCEPT ![resp'.args.user].is_active = resp'.args.active]
             /\ UNCHANGED <<teams, pull_requests, pull_request_reviewers>>
        ELSE resp'.err = NotFound /\ UNCHANGED dbvars]_vars

\* a reviewer of an OPEN pull request was deactivated and is still its reviewer
C25_Witness ==
    /\ resp.op = "SetUserIsActive" /\ resp.err = OK /\ ~resp.args.active
    /\ ~users[resp.args.user].is_active
    /\ \E p \in DOMAIN pull_requests :
          /\ pull_requests[p].status = OPEN
          /\ <<p, resp.args.user>> \in pull_request_reviewers

====
